---- MODULE Spec2Model ----
\* Fee harvester for a Token-2022 mint: scan for withheld transfer fees,
\* withdraw them into the authority's custody account, swap them to SOL through
\* Jupiter and distribute the SOL to the recipients, repeated on a timer.
\* Modelled from src/src/check_fee_threshold.ts (scanner, orchestrator) and
\* src/unnamed/part_000 (the "./swap" module: swapper and distributor).
\* "./harvest" (harvestWithheldTokensToAuthority) is not among the sources and
\* is modelled from section 4.3 of the specification.
EXTENDS Integers, Sequences, FiniteSets, TLC

\* ---------------------------------------------------------------- bounds
MaxWithheld == 2        \* largest withheld amount an account accrues
MaxTicks == 2           \* timer ticks that fire
MaxLedgerChanges == 1   \* ledger changes made by other parties
MaxRecipients == 2      \* recipients handed to one call of the distributor

\* ---------------------------------------------------------------- constants
LAMPORTS_PER_SOL == 1000000000
\* Variant: the test pool is 0.02 SOL.
TestAmountLamports_tenfold == (2 * LAMPORTS_PER_SOL) \div 100

TestAmountLamports == (2 * LAMPORTS_PER_SOL) \div 1000     \* 0.002 SOL
PercentScale == 10 * 100           \* "/ 100" with percentages kept in tenths of a percent

Accts == {"a1", "a2"}              \* token accounts of the mint
Volatile == {"a1"}                 \* accounts other parties transact on meanwhile
Thresholds == {-1, 0}           \* THRESH_HOLD values
MintOwners == {"Token2022", "Token", "None"}
Modes == {"swap", "legacy"}
QuoteOuts == {39, 80}              \* outAmount values (lamports) the quote service returns
\* Invocations of the workflow that are followed together. A finished
\* invocation's place is taken by the next one, so any number of cycles runs in
\* sequence and up to two of them overlap.
Cycles == {1, 2}
\* Totals handed to a call of the distributor, in smallest units.
DistTotals == {0, 30, 40, 50, 80}
\* Percentages of a recipient, in tenths of a percent: 2.5 %, 50 %, 90 %.
Percentages == {25, 500, 900}

VARIABLES
    mintOwner,      \* owning program of the mint account, "None" when absent
    hasFee,         \* account -> it carries the transfer-fee sub-state
    withheld,       \* account -> withheld fee amount on the ledger
    custody,        \* token balance of the authority's custody account
    changes,        \* ledger changes made by other parties so far
    threshHold,     \* module constant threshHold
    mode,           \* execution mode (ENABLE_SWAP_AND_DISTRIBUTE)
    enableTest,     \* ENABLE_TEST_DISTRIBUTION === 'true'
    proc,           \* "running" | "exited"
    timerSet,       \* setInterval has been registered
    ticks,          \* timer ticks fired so far
    cyc,            \* cycle -> the state of that invocation of the workflow
    call,           \* a call of distributeSol / distributeTokens on its own
    env,            \* the environment the process was started with
    boot            \* where the module's top-level code stands, and how it exited

vars == <<mintOwner, hasFee, withheld, custody, changes, threshHold, mode,
          enableTest, proc, timerSet, ticks, cyc, call, env, boot>>

ledgerVars == <<mintOwner, hasFee, withheld, custody, changes>>
configVars == <<threshHold, mode, enableTest, env, boot>>
schedVars == <<proc, timerSet, ticks>>

\* ---------------------------------------------------------------- helpers
RECURSIVE SumOver(_, _)
SumOver(S, f) ==
    IF S = {} THEN 0
    ELSE LET x == CHOOSE y \in S : TRUE IN f[x] + SumOver(S \ {x}, f)

Balance == [a \in Accts |-> IF a = "a1" THEN 3 ELSE 5]

\* Variant: every existing mint is taken for a Token-2022 mint.
isToken2022_anyProgram == mintOwner # "None"

\* mintInfo.owner.equals(TOKEN_2022_PROGRAM_ID)
isToken2022 == mintOwner = "Token2022"

\* feeAmount?.withheldAmount || BigInt(0), then Number(): amounts here stay far
\* below 2^53, where Number(BigInt) is exact.
WithheldNumber(a) == IF hasFee[a] THEN withheld[a] ELSE 0

\* Variant: the comparison with the threshold is not strict.
IsHarvestable_notStrict(a) == hasFee[a] /\ WithheldNumber(a) >= threshHold

\* feeAmount !== null && withheldNumber > threshHold
IsHarvestable(a) == hasFee[a] /\ WithheldNumber(a) > threshHold

\* One element of feeAnalysis.
AnalyseAccount(a) ==
    [accountAddress |-> a,
     withheldAmount |-> WithheldNumber(a),
     isHarvestable |-> IsHarvestable(a),
     balance |-> Balance[a]]

\* Variant: an account that cannot be decoded is left out of the batch.
Decoded_skipUndecodable == Accts \ env.undecodable

\* tokenAccounts.map(accountInfo => unpackAccount(...)) (lines 157-162, 271 and
\* 346-351): unpackAccount throws on malformed account data, inside the map and
\* with no try of its own, so the accounts decoded are all of them or, when one
\* throws, none: the error leaves the function through its catch block.
Decoded == IF env.undecodable = {} THEN Accts ELSE {}

DecodeFails == Decoded # Accts \ env.undecodable

ZeroReport ==
    [totalAccounts |-> 0, totalBalance |-> 0, totalWithheldFees |-> 0,
     harvestableAccounts |-> 0, harvestableFees |-> 0,
     threshold |-> threshHold, accounts |-> {}]

\* The report checkAvailableFees builds from the enumerated accounts.
FeeReport ==
    LET feeAnalysis == {AnalyseAccount(a) : a \in Decoded}
        harv == {r \in feeAnalysis : r.isHarvestable}
        wOf == [r \in feeAnalysis |-> r.withheldAmount]
        bOf == [r \in feeAnalysis |-> r.balance]
    IN [totalAccounts |-> Cardinality(Accts),
        totalBalance |-> SumOver(feeAnalysis, bOf),
        totalWithheldFees |-> SumOver(feeAnalysis, wOf),
        harvestableAccounts |-> Cardinality(harv),
        harvestableFees |-> SumOver(harv, wOf),
        threshold |-> threshHold,
        accounts |-> feeAnalysis]

NoSnap == [a \in Accts |-> [fee |-> FALSE, w |-> 0]]

NoResult ==
    [status |-> "none", success |-> FALSE, message |-> "",
     hasTotals |-> FALSE, totalFees |-> 0, accountCount |-> 0]

\* A value returned by harvestTokenFees / harvestSwapAndDistribute.
Returned(ok, msg) == [NoResult EXCEPT !.status = "returned", !.success = ok, !.message = msg]

ReturnedTotals(ok, msg, fees, n) ==
    [Returned(ok, msg) EXCEPT !.hasTotals = TRUE, !.totalFees = fees, !.accountCount = n]

\* An error thrown (re-thrown by the catch blocks at lines 211-214, 299-302, 485-488).
Thrown(msg) == [NoResult EXCEPT !.status = "threw", !.message = msg]

NewCycle ==
    [pc |-> "idle", initial |-> FALSE,
     hasReport |-> FALSE, report |-> ZeroReport, enumerated |-> FALSE,
     snap |-> NoSnap, cands |-> {}, totalFees |-> 0,
     refetched |-> [a \in Accts |-> 0], kept |-> {}, harvest |-> "none", withdrawn |-> 0,
     swapAmount |-> 0, quoteOut |-> 0, swap |-> "none", chain |-> "none",
     distKind |-> "none", pool |-> 0, distIdx |-> 0, paid |-> <<>>,
     log |-> <<>>,
     result |-> NoResult]

\* The state of a call of distributeSol / distributeTokens made on its own.
NoCallResult == [status |-> "none", success |-> FALSE, hasList |-> FALSE]

NoCall ==
    [pc |-> "idle", kind |-> "sol", total |-> 0, recips |-> <<>>, idx |-> 0,
     inFlight |-> {}, skipped |-> {}, failed |-> {}, sent |-> <<>>, landed |-> <<>>,
     events |-> <<>>, paid |-> <<>>, result |-> NoCallResult]

\* An environment with every address set and valid, neither CHECK_ONLY nor
\* TEST_DISTRIBUTION_ONLY, and every token account decodable.
CompleteEnv ==
    [mint |-> "valid", recipients |-> TRUE, testWallets |-> TRUE,
     checkOnly |-> FALSE, testOnly |-> FALSE, undecodable |-> {}]

\* exitCode is the code handed to process.exit, -1 while it has not been called.
Booting == [pc |-> "validate", exitCode |-> 0 - 1, signal |-> "none"]

\* The top-level code has reached startAutomaticHarvestingWithSwap /
\* startAutomaticHarvesting.
Started == [Booting EXCEPT !.pc = "loop"]

\* ---------------------------------------------------------------- Init
\* The process from the call of startAutomaticHarvestingWithSwap /
\* startAutomaticHarvesting on, started with a complete environment.
Init ==
    /\ mintOwner \in MintOwners
    /\ hasFee \in {f \in [Accts -> BOOLEAN] : f["a1"]}
    /\ withheld = [a \in Accts |-> IF hasFee[a] THEN 1 ELSE 0]
    /\ custody = 0
    /\ changes = 0
    /\ threshHold \in Thresholds
    /\ mode \in Modes
    /\ enableTest \in (IF mode = "swap" THEN BOOLEAN ELSE {FALSE})
    /\ proc = "running"
    /\ timerSet = FALSE
    /\ ticks = 0
    /\ cyc = [c \in Cycles |-> IF c = 1
                                THEN [NewCycle EXCEPT !.pc = "check", !.initial = TRUE]
                                ELSE NewCycle]
    /\ call = NoCall
    /\ env = CompleteEnv
    /\ boot = Started

\* ---------------------------------------------------------------- orchestrator
\* The locals of a finished invocation are gone once the event loop runs its
\* next callback; only the invocation's outcome is remembered.
Forget(u) ==
    [NewCycle EXCEPT !.pc = "done", !.initial = u.initial,
                     !.result = [NoResult EXCEPT !.status = u.result.status,
                                                 !.success = u.result.success]]

Retired == [c \in Cycles |-> IF cyc[c].pc = "done" THEN Forget(cyc[c]) ELSE cyc[c]]

\* What the caller of a cycle does when the cycle ends with result r.
\* The initial cycle is awaited by startAutomaticHarvestingWithSwap /
\* startAutomaticHarvesting before setInterval is reached: a value lets the
\* function go on and register the timer; an error rejects the promise returned
\* to the top level, where nothing handles it (lines 670 and 674), so the timer
\* is never registered and the process ends. A timer cycle runs inside the
\* callback's try/catch, which logs the error.
\* u is the cycle's record as the ending step leaves it.
EndCycleWith(c, u, r) ==
    /\ cyc' = [Retired EXCEPT ![c] = [u EXCEPT !.pc = "done", !.result = r]]
    /\ IF cyc[c].initial
       THEN IF r.status = "threw"
            THEN /\ proc' = "exited"
                 /\ UNCHANGED <<timerSet, ticks>>
            ELSE /\ timerSet' = TRUE
                 /\ UNCHANGED <<proc, ticks>>
       ELSE UNCHANGED schedVars

EndCycle(c, r) == EndCycleWith(c, cyc[c], r)

InFlight(c) == cyc[c].pc \notin {"idle", "done"}

\* Variant: a new invocation starts with the total of the one before it.
FreshCycle_keepsTotal(prev) ==
    [NewCycle EXCEPT !.pc = "check", !.totalFees = prev.totalFees]

\* The locals of an invocation started by the timer: everything the functions
\* work on is declared inside them (lines 113-215, 217-303, 306-489), nothing is
\* kept at module level but the constants connection, payer and threshHold.
FreshCycle(prev) == [NewCycle EXCEPT !.pc = "check"]

\* setInterval callback (lines 563-571 and 689-697): starts a cycle whatever the
\* earlier cycles are doing.
Tick ==
    /\ proc = "running"
    /\ timerSet
    /\ ticks < MaxTicks
    /\ \E c \in Cycles :
         /\ ~InFlight(c)
         /\ \A d \in Cycles : d < c => InFlight(d)
         /\ cyc' = [Retired EXCEPT ![c] = FreshCycle(cyc[c])]
    /\ ticks' = ticks + 1
    /\ UNCHANGED <<ledgerVars, configVars, proc, timerSet, call>>

\* ---------------------------------------------------------------- scanner
checkAvailableFees(c) ==
    /\ proc = "running"
    /\ cyc[c].pc = "check"
    /\ \E rpc \in {"ok", "error"} :
         IF mintOwner = "None" \/ (rpc = "error" /\ isToken2022)
         THEN EndCycle(c, Thrown(IF mintOwner = "None" THEN "Mint account not found"
                                                        ELSE "rpc error"))
         ELSE IF rpc = "ok" /\ isToken2022 /\ DecodeFails
         THEN EndCycle(c, Thrown("decode error"))
         ELSE /\ rpc = "ok"
              /\ cyc' = [Retired EXCEPT ![c] = [cyc[c] EXCEPT
                    !.pc = "enum",
                    !.hasReport = TRUE,
                    !.report = IF isToken2022 THEN FeeReport ELSE ZeroReport,
                    !.enumerated = isToken2022,
                    !.log = Append(@, <<"scan", 0>>)]]
              /\ UNCHANGED schedVars
    /\ UNCHANGED <<ledgerVars, configVars, call>>

\* ---------------------------------------------------------------- harvest entry
\* Variant: the comparison with the threshold is not strict.
hasHarvestableFees_notStrict(a) == hasFee[a] /\ WithheldNumber(a) >= threshHold

\* feeAmount !== null && Number(withheldAmount) > threshHold  (lines 272 and 361)
hasHarvestableFees(a) == hasFee[a] /\ WithheldNumber(a) > threshHold

\* tokenAccounts.map(...) : what the enumeration read for each account.
Snapshot == [a \in Accts |-> [fee |-> hasFee[a], w |-> WithheldNumber(a)]]

\* accountsWithFees
AccountsWithFees == {a \in Decoded : hasHarvestableFees(a)}

\* accountsWithFees.reduce((sum, acc) => sum + acc.withheldAmount, 0)
TotalFees(S) == SumOver(S, [a \in Accts |-> WithheldNumber(a)])

\* The two hard-coded recipients, 2.5 % each, in tenths of a percent.
Recipients == <<25, 25>>

\* Variant: an empty candidate set is harvested like any other.
NothingToHarvest_never(S) == FALSE

\* accountsWithFees.length === 0  (lines 277 and 366)
NothingToHarvest(S) == S = {}

\* harvestSwapAndDistribute up to the call of harvestWithheldTokensToAuthority.
harvestSwapAndDistribute(c) ==
    /\ proc = "running"
    /\ mode = "swap"
    /\ cyc[c].pc = "enum"
    /\ \E rpc \in {"ok", "error"} :
         IF mintOwner = "None"
         THEN EndCycle(c, Thrown("Mint account not found"))
         ELSE IF ~isToken2022
         THEN /\ rpc = "ok"
              /\ EndCycle(c, Returned(FALSE, "No transfer fees available for SPL Token"))
         ELSE IF rpc = "error"
         THEN EndCycle(c, Thrown("rpc error"))
         ELSE IF DecodeFails
         THEN EndCycle(c, Thrown("decode error"))
         ELSE LET u == [cyc[c] EXCEPT !.hasReport = FALSE, !.report = ZeroReport,
                                      !.enumerated = FALSE,
                                      !.snap = Snapshot,
                                      !.cands = AccountsWithFees,
                                      !.log = Append(@, <<"enumerate", 0>>)]
              IN IF NothingToHarvest(AccountsWithFees)
                 THEN IF enableTest
                      THEN /\ cyc' = [Retired EXCEPT ![c] =
                                 [u EXCEPT !.pc = "dist", !.distKind = "test",
                                           !.pool = TestAmountLamports, !.distIdx = 1]]
                           /\ UNCHANGED schedVars
                      ELSE EndCycleWith(c, u, Returned(FALSE, "No fees to harvest"))
                 ELSE /\ cyc' = [Retired EXCEPT ![c] =
                            [u EXCEPT !.pc = "harvest",
                                      !.totalFees = TotalFees(AccountsWithFees)]]
                      /\ UNCHANGED schedVars
    /\ UNCHANGED <<ledgerVars, configVars, call>>

\* harvestTokenFees up to the call of harvestWithheldTokensToAuthority.
harvestTokenFees(c) ==
    /\ proc = "running"
    /\ mode = "legacy"
    /\ cyc[c].pc = "enum"
    /\ \E rpc \in {"ok", "error"} :
         IF mintOwner = "None"
         THEN EndCycle(c, Thrown("Mint account not found"))
         ELSE IF ~isToken2022
         THEN /\ rpc = "ok"
              /\ EndCycle(c, Returned(FALSE, "No transfer fees available for SPL Token"))
         ELSE IF rpc = "error"
         THEN EndCycle(c, Thrown("rpc error"))
         ELSE IF DecodeFails
         THEN EndCycle(c, Thrown("decode error"))
         ELSE LET u == [cyc[c] EXCEPT !.hasReport = FALSE, !.report = ZeroReport,
                                      !.enumerated = FALSE,
                                      !.snap = Snapshot,
                                      !.cands = AccountsWithFees,
                                      !.log = Append(@, <<"enumerate", 0>>)]
              IN IF NothingToHarvest(AccountsWithFees)
                 THEN EndCycleWith(c, u, Returned(FALSE, "No fees to harvest"))
                 ELSE /\ cyc' = [Retired EXCEPT ![c] =
                            [u EXCEPT !.pc = "harvest",
                                      !.totalFees = TotalFees(AccountsWithFees)]]
                      /\ UNCHANGED schedVars
    /\ UNCHANGED <<ledgerVars, configVars, call>>

\* The code after "await harvestWithheldTokensToAuthority(...)" has returned, for
\* a cycle whose record is u by then: lines 295-297 (legacy) and 425-458, 483.
AfterHarvest(c, u) ==
    LET v == [u EXCEPT !.log = Append(@, <<"harvestReturn", 0>>)]
    IN IF mode = "swap" /\ v.totalFees > 0
       THEN /\ cyc' = [Retired EXCEPT ![c] = [v EXCEPT !.pc = "quote",
                                                  !.swapAmount = v.totalFees]]
            /\ UNCHANGED schedVars
       ELSE EndCycleWith(c, v, ReturnedTotals(TRUE, "", v.totalFees, Cardinality(v.cands)))

\* ---------------------------------------------------------------- harvester
\* harvestWithheldTokensToAuthority of "./harvest", after section 4.3.
\* Variant: the candidates of the scan are trusted as they are.
KeepForWithdrawal_trustScan(a) == TRUE

\* An account is kept when it is owned by the fee-extended program and its
\* re-fetched withheld amount is present and positive.
KeepForWithdrawal(a) == hasFee[a] /\ withheld[a] > 0

\* Preconditions, re-fetch of every candidate, and submission of the one batch.
harvestWithheldTokensToAuthority(c) ==
    /\ proc = "running"
    /\ cyc[c].pc = "harvest"
    /\ \E pre \in {"ok", "no fee mechanism", "custody account invalid"} :
         IF pre # "ok"
         THEN EndCycleWith(c, [cyc[c] EXCEPT !.harvest = "failed"], Thrown(pre))
         ELSE LET keep == {a \in cyc[c].cands : KeepForWithdrawal(a)}
                  u == [cyc[c] EXCEPT !.refetched = [a \in Accts |->
                                          IF a \in cyc[c].cands THEN withheld[a] ELSE 0],
                                      !.kept = keep]
              IN IF keep = {}
                 THEN AfterHarvest(c, [u EXCEPT !.harvest = "nothing"])
                 ELSE /\ cyc' = [Retired EXCEPT ![c] =
                            [u EXCEPT !.pc = "withdraw",
                                      !.log = Append(@, <<"withdrawSubmit", 0>>)]]
                      /\ UNCHANGED schedVars
    /\ UNCHANGED <<ledgerVars, configVars, call>>

\* The withdrawal executes on the ledger and is confirmed, or it is rejected or
\* its confirmation times out: then the call throws and so does its caller.
withdrawConfirm(c) ==
    /\ proc = "running"
    /\ cyc[c].pc = "withdraw"
    /\ \E outcome \in {"confirmed", "failed"} :
         IF outcome = "confirmed"
         THEN LET amount == SumOver(cyc[c].kept, withheld)
              IN /\ withheld' = [a \in Accts |-> IF a \in cyc[c].kept THEN 0 ELSE withheld[a]]
                 /\ custody' = custody + amount
                 /\ AfterHarvest(c, [cyc[c] EXCEPT
                                       !.harvest = "ok",
                                       !.withdrawn = amount,
                                       !.log = Append(@, <<"withdrawConfirm", 0>>)])
                 /\ UNCHANGED <<mintOwner, hasFee, changes>>
         ELSE /\ EndCycleWith(c, [cyc[c] EXCEPT !.harvest = "failed"],
                              Thrown("withdrawal failed"))
              /\ UNCHANGED ledgerVars
    /\ UNCHANGED <<configVars, call>>

\* ---------------------------------------------------------------- swapper
\* Variant: a failed swap is started over from the quote, with the record of the
\* failed attempt dropped.
SwapFailed_retry(c, u) ==
    LET sent == IF cyc[c].pc = "confirm" THEN 4 ELSE 0
    IN /\ cyc' = [Retired EXCEPT ![c] =
              [cyc[c] EXCEPT !.pc = "quote", !.quoteOut = 0,
                             !.log = SubSeq(@, 1, Len(@) - sent)]]
       /\ UNCHANGED schedVars

\* swapTokensToSol returned { success: false, error }: swapAndDistribute throws
\* inside its own try (line 352), returns { success: false, error } (377-380), and
\* harvestSwapAndDistribute returns the mixed result of lines 473-479.
SwapFailed(c, u) ==
    EndCycleWith(c, [u EXCEPT !.swap = "failed"],
                 ReturnedTotals(FALSE, "Harvest successful but swap/distribution failed",
                                cyc[c].totalFees, Cardinality(cyc[c].cands)))

\* The steps of swapTokensToSol in order: quote fetch (with its status check and
\* json()), swap-build fetch (likewise), Transaction.from, sign and
\* sendRawTransaction, confirmTransaction.
SwapSteps == <<"quote", "build", "deserialize", "send", "confirm">>

\* The log entries of the first n steps of a swap of amount amt.
RECURSIVE StepLog(_, _)
StepLog(n, amt) ==
    IF n = 0 THEN <<>>
    ELSE Append(StepLog(n - 1, amt), <<SwapSteps[n], IF n = 1 THEN amt ELSE 0>>)

\* swapTokensToSol up to "await connection.confirmTransaction": steps 1 to 4
\* (lines 49-103). failAt is the step that throws (0: none does); the catch block
\* turns the error into { success: false, error }.
swapTokensToSol(c) ==
    /\ proc = "running"
    /\ cyc[c].pc = "quote"
    /\ \E failAt \in 0..4, out \in QuoteOuts :
         LET done == IF failAt = 0 THEN 4 ELSE failAt
             u == [cyc[c] EXCEPT !.log = @ \o StepLog(done, cyc[c].swapAmount),
                                 !.quoteOut = IF failAt = 1 THEN 0 ELSE out]
         IN IF failAt = 0
            THEN /\ cyc' = [Retired EXCEPT ![c] = [u EXCEPT !.pc = "confirm"]]
                 /\ UNCHANGED schedVars
            ELSE SwapFailed(c, u)
    /\ UNCHANGED <<ledgerVars, configVars, call>>

\* Step 5: await connection.confirmTransaction(signature, 'confirmed'), whose value
\* the code does not read. The call resolves when the transaction is confirmed,
\* whether it executed ("landed") or failed on the ledger ("err": value.err is
\* set), and throws only when no confirmation arrives. A transaction that swaps
\* more than the custody account holds cannot execute.
\* Variant: the pool is what the swap moved on the ledger.
SolReceived_ledgerDelta(out, ch) == IF ch = "landed" THEN out ELSE 0

\* solReceived: expectedSol, the quote's outAmount (lines 66 and 112-116), handed
\* on as swapResult.solReceived || 0 (line 359).
SolReceived(out, ch) == out

swapConfirm(c) ==
    /\ proc = "running"
    /\ cyc[c].pc = "confirm"
    /\ LET u == [cyc[c] EXCEPT !.log = Append(@, <<"confirm", 0>>)]
           go(ch) == [u EXCEPT !.pc = "dist", !.swap = "ok", !.chain = ch,
                               !.distKind = "swap",
                               !.pool = SolReceived(cyc[c].quoteOut, ch),
                               !.distIdx = 1]
       IN \/ /\ custody >= cyc[c].swapAmount
             /\ custody' = custody - cyc[c].swapAmount
             /\ cyc' = [Retired EXCEPT ![c] = go("landed")]
             /\ UNCHANGED <<schedVars, mintOwner, hasFee, withheld, changes>>
          \/ /\ cyc' = [Retired EXCEPT ![c] = go("err")]
             /\ UNCHANGED <<schedVars, ledgerVars>>
          \/ /\ SwapFailed(c, [u EXCEPT !.chain = "timeout"])
             /\ UNCHANGED ledgerVars
    /\ UNCHANGED <<configVars, call>>

\* ---------------------------------------------------------------- distributor
\* The pairs <<pool in lamports, percentage in tenths of a percent>>, among the
\* pools and percentages that occur here, at which the double arithmetic of
\* lines 66 and 148-149, ((S / 1e9) * p / 100) * 1e9, comes out just below the
\* whole number S * p / 100 (80 lamports at 2.5 % give 1.9999999999999997), so
\* that Math.floor yields one unit less. At every other pair the doubles give
\* the floor of the exact quotient.
DoubleShortfall == {<<30, 500>>, <<30, 900>>, <<40, 25>>, <<80, 25>>}

\* Math.floor(((totalSolAmount * percentage) / 100) * LAMPORTS_PER_SOL), with the
\* pool in lamports and the percentage in tenths of a percent.
Lamports(pool, pct) ==
    LET exact == (pool * pct) \div PercentScale
    IN IF <<pool, pct>> \in DoubleShortfall THEN exact - 1 ELSE exact

\* The value harvestSwapAndDistribute returns once distributeSol has returned
\* { success: distributions.length > 0, distributions }.
DistributionResult(c, paid) ==
    IF cyc[c].distKind = "test"
    THEN IF Len(paid) > 0
         THEN Returned(TRUE, "Test distribution completed")
         ELSE Returned(FALSE, "Test distribution failed")
    ELSE IF Len(paid) > 0
         THEN ReturnedTotals(TRUE, "", cyc[c].totalFees, Cardinality(cyc[c].cands))
         ELSE ReturnedTotals(FALSE, "Harvest successful but swap/distribution failed",
                             cyc[c].totalFees, Cardinality(cyc[c].cands))

\* Variant: a failed transfer is tried again.
NextRecipient_retry(i, tx) == IF tx = "failed" THEN i ELSE i + 1

\* "for (const recipient of recipients)": the loop moves on to the next recipient
\* whatever became of the transfer (the catch block at lines 185-188 only logs).
NextRecipient(i, tx) == i + 1

\* The recipients' addresses are those of the environment, or the placeholders
\* "WALLET_ADDRESS_1_HERE" / "WALLET_ADDRESS_2_HERE" (lines 374-383, 431-440),
\* which are no base58 strings: new PublicKey(recipient.address) (part_000 line
\* 160) throws on them inside the recipient's try, before any transfer is built.
AddressesSet(kind) == IF kind = "test" THEN env.testWallets ELSE env.recipients

\* One iteration of the loop of distributeSol (lines 147-189), and, after the
\* last one, the return.
distributeSol(c) ==
    /\ proc = "running"
    /\ cyc[c].pc = "dist"
    /\ LET i == cyc[c].distIdx
           lamports == Lamports(cyc[c].pool, Recipients[i])
           next(u, j) == IF j > Len(Recipients)
                         THEN EndCycleWith(c, u, DistributionResult(c, u.paid))
                         ELSE /\ cyc' = [Retired EXCEPT ![c] = [u EXCEPT !.distIdx = j]]
                              /\ UNCHANGED schedVars
       IN IF lamports < 1
          THEN next(cyc[c], NextRecipient(i, "skipped"))
          ELSE IF ~AddressesSet(cyc[c].distKind)
          THEN next(cyc[c], NextRecipient(i, "failed"))
          ELSE \E tx \in {"confirmed", "failed"} :
                 LET u == [cyc[c] EXCEPT !.log = Append(@, <<"transfer", i>>)]
                 IN IF tx = "confirmed"
                    THEN next([u EXCEPT !.paid = Append(@, [to |-> i, lamports |-> lamports])],
                              NextRecipient(i, tx))
                    ELSE next(u, NextRecipient(i, tx))
    /\ UNCHANGED <<ledgerVars, configVars, call>>

\* ---------------------------------------------------------------- a call of the distributor
\* distributeSol and distributeTokens called with any total and any recipients.
\* Amounts are in smallest units (lamports, raw token units); the amount a
\* result entry records is kept in thousandths of the smallest unit.

\* Variant: the share is rounded up.
TokenAmount_ceil(total, pct) == (total * pct + PercentScale - 1) \div PercentScale

\* Math.floor((totalTokenAmount * recipient.percentage) / 100), line 243. The
\* percentages used here (2.5, 50, 90) are exact doubles, and so are the
\* products and every whole quotient: the doubles give the exact floor.
TokenAmount(total, pct) == (total * pct) \div PercentScale

\* The number of smallest units the transfer instruction is built with
\* (lines 149 and 165; lines 243 and 288).
Units(kind, total, pct) ==
    IF kind = "sol" THEN Lamports(total, pct) ELSE TokenAmount(total, pct)

\* The amount pushed to distributions, in thousandths of the smallest unit:
\* distributeSol pushes amount = (totalSolAmount * percentage) / 100, the share
\* before Math.floor (lines 148, 178); distributeTokens pushes the floored
\* amount (lines 243, 303).
RecordedAmount(kind, total, pct) ==
    IF kind = "sol" THEN total * pct ELSE TokenAmount(total, pct) * PercentScale

\* Variant: percentages that do not sum to 100 are refused.
PercentagesAccepted_mustSum100(recips) ==
    SumOver(DOMAIN recips, [i \in DOMAIN recips |-> recips[i].pct]) = 100 * 10

\* Lines 140-143: a total other than 100 is only warned about.
PercentagesAccepted(recips) == TRUE

\* Variant: an error of one recipient ends the call.
CaughtPerRecipient_outerOnly == FALSE

\* The try/catch inside the loop (lines 158-188, 252-313) catches the error of
\* one recipient and only logs it.
CaughtPerRecipient == TRUE

\* Variant: the call always reports success.
DistributionSuccess_always(paid) == TRUE

\* success: distributions.length > 0  (lines 194, 319)
DistributionSuccess(paid) == Len(paid) > 0

\* Variant: a new entry is put in front of the list.
PushDistribution_front(paid, e) == <<e>> \o paid

\* distributions.push({ address, amount, signature })  (lines 176, 301)
PushDistribution(paid, e) == Append(paid, e)

\* The call moves on to recipient j of record u, or returns after the last one
\* (lines 191-196, 316-321).
Proceed(u, j) ==
    IF j > Len(u.recips)
    THEN call' = [u EXCEPT !.pc = "done", !.idx = j,
                           !.result = [status |-> "returned",
                                       success |-> DistributionSuccess(u.paid),
                                       hasList |-> TRUE]]
    ELSE call' = [u EXCEPT !.pc = "loop", !.idx = j]

\* The outer catch (lines 198-204, 323-329): { success: false, error }.
ReturnError(u) ==
    call' = [u EXCEPT !.pc = "done",
                      !.result = [status |-> "returned", success |-> FALSE,
                                  hasList |-> FALSE]]

\* An error thrown inside the loop for recipient i.
RecipientFailed(u, i) ==
    LET v == [u EXCEPT !.failed = @ \cup {i}]
    IN IF CaughtPerRecipient
       THEN Proceed(v, NextRecipient(i, "failed"))
       ELSE ReturnError(v)

\* distributeSol up to the loop (lines 136-145).
distributeSolEntry ==
    /\ call.pc = "entry"
    /\ call.kind = "sol"
    /\ IF PercentagesAccepted(call.recips)
       THEN Proceed(call, 1)
       ELSE ReturnError(call)
    /\ UNCHANGED <<ledgerVars, configVars, schedVars, cyc>>

\* distributeTokens up to the loop (lines 217-240): the mint is looked up, and a
\* missing mint throws into the outer catch.
distributeTokens ==
    /\ call.pc = "entry"
    /\ call.kind = "tokens"
    /\ IF mintOwner = "None" \/ ~PercentagesAccepted(call.recips)
       THEN ReturnError(call)
       ELSE Proceed(call, 1)
    /\ UNCHANGED <<ledgerVars, configVars, schedVars, cyc>>

\* One recipient of the loop up to the submission of its transfer (lines
\* 147-174, 242-299): the share, the skip of a share below one unit, the
\* recipient's public key (an invalid address throws), the submission.
distributeRecipient ==
    /\ call.pc = "loop"
    /\ LET i == call.idx
           r == call.recips[i]
           units == Units(call.kind, call.total, r.pct)
       IN IF units < 1
          THEN Proceed([call EXCEPT !.skipped = @ \cup {i}], NextRecipient(i, "skipped"))
          ELSE IF ~r.valid
          THEN RecipientFailed([call EXCEPT !.events = Append(@, <<"try", i>>)], i)
          ELSE call' = [call EXCEPT
                   !.pc = "await",
                   !.inFlight = @ \cup {i},
                   !.sent = Append(@, [to |-> i, units |-> units]),
                   !.events = @ \o <<(<<"try", i>>), (<<"submit", i>>)>>]
    /\ UNCHANGED <<ledgerVars, configVars, schedVars, cyc>>

\* "await sendAndConfirmTransaction(...)" resolves with the signature of a
\* transfer that executed, or throws (lines 169-188, 294-313).
distributeConfirm ==
    /\ call.pc = "await"
    /\ LET i == call.idx
           r == call.recips[i]
           units == Units(call.kind, call.total, r.pct)
           u == [call EXCEPT !.inFlight = @ \ {i},
                             !.events = Append(@, <<"settle", i>>)]
       IN \E tx \in {"confirmed", "failed"} :
            IF tx = "confirmed"
            THEN Proceed([u EXCEPT
                     !.landed = Append(@, [to |-> i, units |-> units]),
                     !.paid = PushDistribution(@,
                                 [to |-> i,
                                  amount |-> RecordedAmount(call.kind, call.total, r.pct),
                                  units |-> units])],
                     NextRecipient(i, tx))
            ELSE RecipientFailed(u, i)
    /\ UNCHANGED <<ledgerVars, configVars, schedVars, cyc>>

\* ---------------------------------------------------------------- ledger
\* Withheld amounts are read by a cycle from its scan to its withdrawal. A
\* change made by another party at any other moment is read no sooner than in
\* the next such stretch, so it is taken to arrive there.
Reading == \E c \in Cycles : cyc[c].pc \in {"check", "enum", "harvest", "withdraw"}

\* A transfer by a holder accrues a fee on an account.
Accrue(a) ==
    /\ proc = "running"
    /\ Reading
    /\ changes < MaxLedgerChanges
    /\ hasFee[a]
    /\ withheld[a] < MaxWithheld
    /\ withheld' = [withheld EXCEPT ![a] = @ + 1]
    /\ changes' = changes + 1
    /\ cyc' = Retired
    /\ UNCHANGED <<mintOwner, hasFee, custody, configVars, schedVars, call>>

\* Another party moves an account's withheld fees away (harvest to the mint).
Drain(a) ==
    /\ proc = "running"
    /\ Reading
    /\ changes < MaxLedgerChanges
    /\ withheld[a] > 0
    /\ withheld' = [withheld EXCEPT ![a] = 0]
    /\ changes' = changes + 1
    /\ cyc' = Retired
    /\ UNCHANGED <<mintOwner, hasFee, custody, configVars, schedVars, call>>

\* ---------------------------------------------------------------- start-up
\* validateConfig (lines 596-637): a missing or malformed TOKEN_MINT_ADDRESS ends
\* the process with code 1; unset RECIPIENT_WALLET_1 / RECIPIENT_WALLET_2 only
\* draw a warning.
validateConfig ==
    /\ proc = "running"
    /\ boot.pc = "validate"
    /\ IF env.mint # "valid"
       THEN /\ proc' = "exited"
            /\ boot' = [boot EXCEPT !.pc = "exited", !.exitCode = 1]
       ELSE /\ boot' = [boot EXCEPT !.pc = "dispatch"]
            /\ UNCHANGED proc
    /\ UNCHANGED <<ledgerVars, threshHold, mode, enableTest, env, timerSet, ticks, cyc, call>>

\* Variant: CHECK_ONLY is not looked at.
DispatchBranch_ignoreCheckOnly == IF env.testOnly THEN "testOnly" ELSE "loop"

\* if (TEST_DISTRIBUTION_ONLY) ... else if (CHECK_ONLY) ... else ... (lines 651-675)
DispatchBranch ==
    IF env.testOnly THEN "testOnly"
    ELSE IF env.checkOnly THEN "checkOnly"
    ELSE "loop"

\* The top-level code after validateConfig has returned. In the last two
\* branches the initial cycle starts at once.
Dispatch ==
    /\ proc = "running"
    /\ boot.pc = "dispatch"
    /\ boot' = [boot EXCEPT !.pc = DispatchBranch]
    /\ cyc' = IF DispatchBranch = "loop"
              THEN [cyc EXCEPT ![1] = [NewCycle EXCEPT !.pc = "check", !.initial = TRUE]]
              ELSE cyc
    /\ UNCHANGED <<ledgerVars, threshHold, mode, enableTest, env, schedVars, call>>

\* checkFeesOnly(TOKEN_MINT).then(() => process.exit(0)) (lines 574-578, 661-666):
\* one scan; nothing handles a rejection, which ends the process.
checkFeesOnly ==
    /\ proc = "running"
    /\ boot.pc = "checkOnly"
    /\ \E rpc \in {"ok", "error"} :
         LET u == [NewCycle EXCEPT !.pc = "done", !.initial = TRUE]
         IN IF mintOwner = "None" \/ (rpc = "error" /\ isToken2022)
               \/ (isToken2022 /\ DecodeFails)
            THEN /\ cyc' = [cyc EXCEPT ![1] = [u EXCEPT !.result = Thrown("scan failed")]]
                 /\ boot' = [boot EXCEPT !.pc = "exited"]
            ELSE /\ rpc = "ok"
                 /\ cyc' = [cyc EXCEPT ![1] = [u EXCEPT
                       !.hasReport = TRUE,
                       !.report = IF isToken2022 THEN FeeReport ELSE ZeroReport,
                       !.enumerated = isToken2022,
                       !.log = Append(@, <<"scan", 0>>),
                       !.result = Returned(TRUE, "")]]
                 /\ boot' = [boot EXCEPT !.pc = "exited", !.exitCode = 0]
    /\ proc' = "exited"
    /\ UNCHANGED <<ledgerVars, threshHold, mode, enableTest, env, timerSet, ticks, call>>

\* The transfers of a call of distributeSol for the first n recipients, entry k
\* confirmed or not as tx[k] says.
RECURSIVE TransfersPaid(_, _, _)
TransfersPaid(n, pool, tx) ==
    IF n = 0 THEN <<>>
    ELSE LET before == TransfersPaid(n - 1, pool, tx)
         IN IF Lamports(pool, Recipients[n]) >= 1 /\ tx[n] = "confirmed"
            THEN Append(before, [to |-> n, lamports |-> Lamports(pool, Recipients[n])])
            ELSE before

RECURSIVE TransfersLogged(_, _)
TransfersLogged(n, pool) ==
    IF n = 0 THEN <<>>
    ELSE IF Lamports(pool, Recipients[n]) >= 1
         THEN Append(TransfersLogged(n - 1, pool), <<"transfer", n>>)
         ELSE TransfersLogged(n - 1, pool)

\* testDistributionOnly().then(... process.exit(0)) (lines 492-544, 651-660):
\* with TEST_WALLET_1 / TEST_WALLET_2 unset it returns before distributing,
\* otherwise it distributes 0.002 SOL; the process exits with code 0 whatever
\* the result.
testDistributionOnly ==
    /\ proc = "running"
    /\ boot.pc = "testOnly"
    /\ LET u == [NewCycle EXCEPT !.pc = "done", !.initial = TRUE]
       IN IF ~env.testWallets
          THEN cyc' = [cyc EXCEPT ![1] =
                  [u EXCEPT !.result = Returned(FALSE, "Recipient addresses not configured")]]
          ELSE \E tx \in [1..Len(Recipients) -> {"confirmed", "failed"}] :
                 LET paid == TransfersPaid(Len(Recipients), TestAmountLamports, tx)
                 IN cyc' = [cyc EXCEPT ![1] = [u EXCEPT
                       !.distKind = "test",
                       !.pool = TestAmountLamports,
                       !.paid = paid,
                       !.log = TransfersLogged(Len(Recipients), TestAmountLamports),
                       !.result = IF Len(paid) > 0
                                  THEN Returned(TRUE, "Test distribution completed")
                                  ELSE Returned(FALSE, "Test distribution failed")]]
    /\ proc' = "exited"
    /\ boot' = [boot EXCEPT !.pc = "exited", !.exitCode = 0]
    /\ UNCHANGED <<ledgerVars, threshHold, mode, enableTest, env, timerSet, ticks, call>>

Signals == {"SIGINT", "SIGTERM"}

\* Variant: the handler notes the signal and lets the process run on.
ShutdownHandler_runOn(sig) ==
    /\ boot' = [boot EXCEPT !.signal = sig]
    /\ UNCHANGED proc

\* process.on('SIGINT' / 'SIGTERM', () => { ...; process.exit(0); }) (lines 581-589)
ShutdownHandler(sig) ==
    /\ boot' = [boot EXCEPT !.pc = "exited", !.exitCode = 0, !.signal = sig]
    /\ proc' = "exited"

\* A signal is delivered once the synchronous top-level code has run, between
\* two callbacks of the event loop: whatever is awaited by then stays as it is.
Signal ==
    /\ proc = "running"
    /\ boot.pc \notin {"validate", "dispatch"}
    /\ boot.signal = "none"
    /\ \E sig \in Signals : ShutdownHandler(sig)
    /\ UNCHANGED <<ledgerVars, threshHold, mode, enableTest, env, timerSet, ticks, cyc, call>>

\* ---------------------------------------------------------------- specification
Next ==
    \/ Tick
    \/ \E c \in Cycles :
         \/ checkAvailableFees(c)
         \/ harvestSwapAndDistribute(c)
         \/ harvestTokenFees(c)
         \/ harvestWithheldTokensToAuthority(c)
         \/ withdrawConfirm(c)
         \/ swapTokensToSol(c)
         \/ swapConfirm(c)
         \/ distributeSol(c)
    \/ \E a \in Volatile : Accrue(a) \/ Drain(a)

Spec == Init /\ [][Next]_vars

\* The step a cycle is waiting for: each of them ends with an external call
\* (ledger read, enumeration, HTTP request, submission, confirmation) returning
\* or failing.
CycleStep(c) ==
    \/ checkAvailableFees(c)
    \/ harvestSwapAndDistribute(c)
    \/ harvestTokenFees(c)
    \/ harvestWithheldTokensToAuthority(c)
    \/ withdrawConfirm(c)
    \/ swapTokensToSol(c)
    \/ swapConfirm(c)
    \/ distributeSol(c)

\* The program under the assumption that every external call eventually
\* returns or fails: an awaited call that has settled resumes its cycle.
SpecLive == Init /\ [][Next]_vars /\ \A c \in Cycles : WF_vars(CycleStep(c))

\* The environments a process is started with. A variable that the branch
\* taken never reads is left at its complete value.
Envs ==
    {e \in [mint : {"valid", "missing", "invalid"}, recipients : BOOLEAN,
            testWallets : BOOLEAN, checkOnly : BOOLEAN, testOnly : BOOLEAN,
            undecodable : {{}, {"a2"}}] :
        /\ (e.mint # "valid" => e.undecodable = {} /\ e.testWallets)
        /\ (e.testOnly => e.undecodable = {} /\ e.recipients /\ ~e.checkOnly)
        /\ (e.checkOnly => e.recipients /\ e.testWallets)}

\* The process at the call of validateConfig, with a fee-bearing mint or none.
InitBoot ==
    /\ mintOwner \in MintOwners
    /\ hasFee = [a \in Accts |-> TRUE]
    /\ withheld = [a \in Accts |-> 1]
    /\ custody = 0
    /\ changes = 0
    /\ threshHold \in Thresholds
    /\ mode \in Modes
    /\ enableTest \in (IF mode = "swap" THEN BOOLEAN ELSE {FALSE})
    /\ proc = "running"
    /\ timerSet = FALSE
    /\ ticks = 0
    /\ cyc = [c \in Cycles |-> NewCycle]
    /\ call = NoCall
    /\ env \in {e \in Envs : /\ (e.undecodable # {} => mintOwner = "Token2022")
                              /\ (mode = "legacy" => e.recipients)
                              /\ (~e.testOnly /\ ~enableTest => e.testWallets)}
    /\ boot = Booting

NextBoot ==
    \/ validateConfig
    \/ Dispatch
    \/ checkFeesOnly
    \/ testDistributionOnly
    \/ Signal
    \/ Tick
    \/ \E c \in Cycles : CycleStep(c)

SpecBoot == InitBoot /\ [][NextBoot]_vars

\* A recipient: its percentage, and whether its address is a valid public key.
RecipientSet == [pct : Percentages, valid : BOOLEAN]

RecipientLists == UNION {[1..n -> RecipientSet] : n \in 0..MaxRecipients}

\* One call of distributeSol or distributeTokens with any total and recipients.
InitDist ==
    /\ mintOwner \in MintOwners
    /\ hasFee = [a \in Accts |-> TRUE]
    /\ withheld = [a \in Accts |-> 0]
    /\ custody = 0
    /\ changes = 0
    /\ threshHold = 0
    /\ mode = "swap"
    /\ enableTest = FALSE
    /\ proc = "running"
    /\ timerSet = FALSE
    /\ ticks = 0
    /\ cyc = [c \in Cycles |-> NewCycle]
    /\ env = CompleteEnv
    /\ boot = Started
    /\ \E k \in {"sol", "tokens"}, t \in DistTotals, rs \in RecipientLists :
         /\ k = "sol" => mintOwner = "Token2022"
         /\ call = [NoCall EXCEPT !.pc = "entry", !.kind = k, !.total = t, !.recips = rs]

NextDist ==
    \/ distributeSolEntry
    \/ distributeTokens
    \/ distributeRecipient
    \/ distributeConfirm

SpecDist == InitDist /\ [][NextDist]_vars

\* ---------------------------------------------------------------- log helpers
\* Positions of the entries named n in a cycle's log.
At(log, n) == {k \in 1..Len(log) : log[k][1] = n}

Has(log, n) == At(log, n) # {}

SwapStepNames == {"quote", "build", "deserialize", "send", "confirm"}

\* ---------------------------------------------------------------- claims

\* C1: at most one workflow cycle is in flight at any time; a timer tick that
\* fires while the previous cycle has not finished starts no concurrent cycle.
C1_AtMostOneCycleInFlight ==
    Cardinality({c \in Cycles : InFlight(c)}) <= 1

\* C2: the source accounts named in the withdrawal sent to the network contain
\* no account whose withheld amount, re-fetched at withdrawal time, is zero,
\* even if it was nonzero when the cycle scanned it.
C2_NoEmptyAccountInWithdrawal ==
    \A c \in Cycles : \A a \in cyc[c].kept :
        /\ a \in cyc[c].cands
        /\ cyc[c].refetched[a] > 0

\* A withdrawal was submitted that leaves out a candidate which held fees at
\* scan time and none at withdrawal time.
C2_Witness ==
    \E c \in Cycles :
        /\ Has(cyc[c].log, "withdrawSubmit")
        /\ \E a \in cyc[c].cands \ cyc[c].kept :
              cyc[c].snap[a].w > 0 /\ cyc[c].refetched[a] = 0

\* C3: every account handed to the withdrawal carried, in the enumeration of the
\* same invocation, a fee sub-state with a withheld amount strictly greater than
\* the threshold.
C3_OnlyScannedHarvestableTargeted ==
    \A c \in Cycles : \A a \in cyc[c].cands \cup cyc[c].kept :
        /\ cyc[c].snap[a].fee
        /\ cyc[c].snap[a].w > threshHold

\* A withdrawal was submitted for one account while the other, seen by the
\* same enumeration, was left out.
C3_Witness ==
    \E c \in Cycles :
        /\ Has(cyc[c].log, "withdrawSubmit")
        /\ cyc[c].kept # {}
        /\ \E a \in Accts \ cyc[c].cands :
              cyc[c].snap[a].fee /\ cyc[c].snap[a].w = threshHold

\* C4: on a fee-extended mint every reported account is harvestable exactly
\* when its fee sub-state exists and its withheld amount is strictly greater
\* than the threshold.
C4_HarvestableIffAboveThreshold ==
    \A c \in Cycles :
        (cyc[c].hasReport /\ mintOwner = "Token2022") =>
            /\ cyc[c].report.totalAccounts = Cardinality(Accts)
            /\ \A r \in cyc[c].report.accounts :
                  r.isHarvestable <=>
                      (hasFee[r.accountAddress]
                       /\ r.withheldAmount > cyc[c].report.threshold)

\* A report that lists an account at the threshold as not harvestable, an
\* account without sub-state as not harvestable, and a harvestable account.
C4_Witness ==
    \E c \in Cycles :
        /\ cyc[c].hasReport /\ mintOwner = "Token2022"
        /\ \E r \in cyc[c].report.accounts :
              hasFee[r.accountAddress] /\ r.withheldAmount = threshHold
              /\ ~r.isHarvestable
        /\ \E r \in cyc[c].report.accounts :
              ~hasFee[r.accountAddress] /\ ~r.isHarvestable

\* C5: for a mint of the plain token program the report is all zero with an
\* empty account list, and no accounts are enumerated.
C5_PlainMintZeroReport ==
    \A c \in Cycles :
        (cyc[c].hasReport /\ mintOwner = "Token") =>
            /\ cyc[c].report.totalAccounts = 0
            /\ cyc[c].report.totalBalance = 0
            /\ cyc[c].report.totalWithheldFees = 0
            /\ cyc[c].report.harvestableAccounts = 0
            /\ cyc[c].report.harvestableFees = 0
            /\ cyc[c].report.accounts = {}
            /\ ~cyc[c].enumerated

\* A report for a plain mint while the ledger holds balances and withheld fees.
C5_Witness ==
    \E c \in Cycles :
        /\ cyc[c].hasReport /\ mintOwner = "Token"
        /\ \E a \in Accts : Balance[a] > 0 /\ withheld[a] > 0

\* The place of a log entry's stage in the order of the workflow.
StageRank(n) ==
    CASE n = "scan" -> 0
      [] n = "enumerate" -> 1
      [] n = "withdrawSubmit" -> 2
      [] n = "withdrawConfirm" -> 3
      [] n = "harvestReturn" -> 4
      [] n = "quote" -> 5
      [] n = "build" -> 6
      [] n = "deserialize" -> 7
      [] n = "send" -> 8
      [] n = "confirm" -> 9
      [] n = "transfer" -> 10

\* C6: within one cycle the stages run in sequence and each at most once: the
\* enumeration completes before the withdrawal is submitted, the harvest call
\* has returned (a submitted withdrawal is confirmed) before the swap is
\* requested, the swap's confirmation has returned before a transfer of the
\* distribution of its proceeds is submitted, no stage is entered again or after
\* a later one, there is at most one withdrawal batch and one swap per cycle and
\* at most one transfer attempt per recipient.
C6_StagesInSequenceOnce ==
    \A c \in Cycles :
        LET log == cyc[c].log
        IN /\ \A k \in 1..(Len(log) - 1) :
                 \/ StageRank(log[k][1]) < StageRank(log[k + 1][1])
                 \/ log[k][1] = "transfer" /\ log[k + 1][1] = "transfer"
           /\ \A j, k \in At(log, "transfer") : j # k => log[j][2] # log[k][2]
           /\ Has(log, "withdrawSubmit") => Has(log, "enumerate")
           /\ Has(log, "withdrawConfirm") => Has(log, "withdrawSubmit")
           /\ Has(log, "quote") =>
                 /\ Has(log, "harvestReturn")
                 /\ Has(log, "withdrawSubmit") => Has(log, "withdrawConfirm")
           /\ (Has(log, "quote") /\ Has(log, "transfer")) => Has(log, "confirm")

\* A cycle went through withdrawal, swap and a distribution in which a transfer
\* failed and the next recipient was paid.
C6_Witness ==
    \E c \in Cycles :
        /\ cyc[c].pc = "done"
        /\ Has(cyc[c].log, "withdrawConfirm")
        /\ Has(cyc[c].log, "confirm")
        /\ Cardinality(At(cyc[c].log, "transfer")) = Len(Recipients)
        /\ Len(cyc[c].paid) = 1
        /\ cyc[c].paid[1].to = 2

\* C7: if the withdrawal fails, the cycle submits no swap and no transfer, the
\* failure surfaces as an error of the call, and the schedule goes on: the next
\* tick starts a cycle with a new scan.
C7_HarvestFailureAbortsCycleOnly ==
    \A c \in Cycles :
        cyc[c].harvest = "failed" =>
            /\ \A n \in SwapStepNames \cup {"transfer"} : ~Has(cyc[c].log, n)
            /\ cyc[c].pc = "done"
            /\ cyc[c].result.status = "threw"
            /\ proc = "running"
            /\ timerSet

\* C8: if the swap fails after a successful harvest, no transfer is attempted,
\* the swap has moved nothing out of custody, and the cycle returns a
\* non-success result carrying the harvested total and the account count.
C8_SwapFailureStopsDistribution ==
    \A c \in Cycles :
        (cyc[c].harvest = "ok" /\ (cyc[c].swap = "failed" \/ cyc[c].chain = "err")) =>
            /\ ~Has(cyc[c].log, "transfer")
            /\ cyc[c].chain # "landed"
            /\ cyc[c].pc = "done" =>
                  /\ cyc[c].result.status = "returned"
                  /\ ~cyc[c].result.success
                  /\ cyc[c].result.hasTotals
                  /\ cyc[c].result.totalFees = cyc[c].totalFees
                  /\ cyc[c].result.accountCount = Cardinality(cyc[c].cands)

\* C9: swapTokensToSol reports success only when every step succeeded; when a
\* step fails (a confirmation that reports the transaction as failed included)
\* it executes no later step, does not throw, and reports success = false.
C9_SwapSuccessOnlyIfEveryStepSucceeded ==
    \A c \in Cycles :
        /\ cyc[c].swap = "ok" =>
              /\ \A n \in SwapStepNames : Has(cyc[c].log, n)
              /\ cyc[c].chain = "landed"
        /\ cyc[c].chain \in {"err", "timeout"} => cyc[c].swap = "failed"
        /\ cyc[c].swap = "failed" =>
              /\ cyc[c].result.status = "returned"
              /\ ~Has(cyc[c].log, "transfer")
              /\ \A k \in 1..Len(SwapSteps) :
                    Has(cyc[c].log, SwapSteps[k]) =>
                        \A j \in 1..k : Has(cyc[c].log, SwapSteps[j])

\* C10: no error of a cycle escapes the orchestrator: after a cycle has thrown,
\* be it the initial one or a timer-triggered one, the process keeps running
\* and the timer is there to start the next cycle.
C10_NoErrorEscapesOrchestrator ==
    \A c \in Cycles :
        cyc[c].result.status = "threw" => (proc = "running" /\ timerSet)

\* The cycles started by a step: those in flight after it that were not before,
\* or whose place was taken anew.
StartedBy ==
    {c \in Cycles : cyc'[c].pc = "check" /\ cyc[c].pc # "check" /\ cyc'[c].log = <<>>}

\* C11: in swap-and-distribute mode exactly one cycle runs on start, before any
\* timer tick; once it has ended the timer is registered and stays registered;
\* and every tick starts exactly one cycle.
C11_OneCycleAtStartThenOnePerTick ==
    /\ [](mode = "swap" =>
            /\ Cardinality({c \in Cycles : cyc[c].initial}) <= 1
            /\ \A c \in Cycles :
                  /\ (InFlight(c) /\ ticks = 0) => cyc[c].initial
                  /\ (InFlight(c) /\ cyc[c].initial) => (ticks = 0 /\ ~timerSet)
                  /\ (cyc[c].initial /\ cyc[c].pc = "done") => (proc = "running" /\ timerSet))
    /\ [][mode = "swap" =>
            /\ timerSet => timerSet'
            /\ ticks' # ticks => (ticks' = ticks + 1 /\ Cardinality(StartedBy) = 1)
            /\ ticks' = ticks => StartedBy = {}]_vars

\* C19: in a cycle whose harvest, swap and distribution all succeeded the
\* reported totalFees is the sum of the withheld amounts of the harvested
\* accounts and accountCount their number, the swap was requested for exactly
\* totalFees, the pool of the distribution is the amount S the swap reported,
\* and each paid 2.5 % recipient was sent floor(0.025 * S) lamports.
C19_EndToEndAmounts ==
    \A c \in Cycles :
        (/\ cyc[c].pc = "done"
         /\ cyc[c].harvest = "ok"
         /\ cyc[c].swap = "ok"
         /\ cyc[c].chain = "landed"
         /\ cyc[c].result.success) =>
            /\ cyc[c].result.hasTotals
            /\ cyc[c].result.totalFees = cyc[c].withdrawn
            /\ cyc[c].result.accountCount = Cardinality(cyc[c].kept)
            /\ cyc[c].swapAmount = cyc[c].result.totalFees
            /\ cyc[c].pool = cyc[c].quoteOut
            /\ \A k \in DOMAIN cyc[c].paid :
                  cyc[c].paid[k].lamports =
                      (cyc[c].quoteOut * Recipients[cyc[c].paid[k].to]) \div PercentScale

\* The cycle's enumeration found no harvestable account.
ScanFoundNothing(c) == Has(cyc[c].log, "enumerate") /\ cyc[c].cands = {}

\* C20, as stated: when the enumeration of a cycle finds no harvestable account,
\* harvestTokenFees and harvestSwapAndDistribute return the "No fees to harvest"
\* result, without throwing and without submitting a withdrawal.
C20_Original_EmptyScanReturnsNothingToHarvest ==
    \A c \in Cycles :
        ScanFoundNothing(c) =>
            /\ ~Has(cyc[c].log, "withdrawSubmit")
            /\ cyc[c].pc = "done"
            /\ cyc[c].result.status = "returned"
            /\ cyc[c].result.message = "No fees to harvest"

\* C20, amended: when the enumeration of a cycle finds no harvestable account,
\* the call submits no withdrawal and no swap and does not throw; it returns the
\* "No fees to harvest" result, except for harvestSwapAndDistribute with test
\* distribution enabled, which distributes the fixed test pool and returns the
\* result of that distribution.
C20_EmptyScanNoWithdrawalNoThrow ==
    \A c \in Cycles :
        ScanFoundNothing(c) =>
            /\ \A n \in SwapStepNames \cup {"withdrawSubmit"} : ~Has(cyc[c].log, n)
            /\ cyc[c].harvest = "none"
            /\ cyc[c].result.status # "threw"
            /\ IF mode = "swap" /\ enableTest
               THEN /\ cyc[c].distKind = "test"
                    /\ cyc[c].pool = TestAmountLamports
                    /\ cyc[c].pc = "done" =>
                          /\ cyc[c].result.status = "returned"
                          /\ cyc[c].result.message \in
                                {"Test distribution completed", "Test distribution failed"}
                          /\ cyc[c].result.success <=> Len(cyc[c].paid) > 0
               ELSE /\ cyc[c].pc = "done"
                    /\ cyc[c].result.status = "returned"
                    /\ ~cyc[c].result.success
                    /\ cyc[c].result.message = "No fees to harvest"
                    /\ ~Has(cyc[c].log, "transfer")

\* A cycle of harvestSwapAndDistribute without test distribution found the only
\* fee-carrying account drained and returned "No fees to harvest".
C20_Witness ==
    \E c \in Cycles :
        /\ ScanFoundNothing(c)
        /\ mode = "swap" /\ ~enableTest
        /\ cyc[c].snap["a1"].fee /\ cyc[c].snap["a1"].w = threshHold
        /\ cyc[c].pc = "done"
        /\ cyc[c].result.message = "No fees to harvest"

C25_CyclesIndependent ==
    \A c \in Cycles :
        /\ cyc[c].pc = "check" =>
              cyc[c] = [NewCycle EXCEPT !.pc = "check", !.initial = cyc[c].initial]
        /\ Has(cyc[c].log, "enumerate") =>
              /\ cyc[c].cands =
                    {a \in Accts : cyc[c].snap[a].fee /\ cyc[c].snap[a].w > threshHold}
              /\ cyc[c].totalFees =
                    SumOver(cyc[c].cands, [a \in Accts |-> cyc[c].snap[a].w])
              /\ cyc[c].kept \subseteq {a \in cyc[c].cands : cyc[c].refetched[a] > 0}
              /\ cyc[c].swapAmount \in {0, cyc[c].totalFees}
              /\ Has(cyc[c].log, "quote") => cyc[c].swapAmount = cyc[c].totalFees
              /\ cyc[c].distKind = "swap" => cyc[c].pool = cyc[c].quoteOut
              /\ cyc[c].distKind = "test" => cyc[c].pool = TestAmountLamports
              /\ \A k \in DOMAIN cyc[c].paid :
                    cyc[c].paid[k].lamports =
                        Lamports(cyc[c].pool, Recipients[cyc[c].paid[k].to])

\* A timer-started cycle requests the swap of its own total while the custody
\* account still holds what an earlier cycle withdrew and failed to swap.
C25_Witness ==
    \E c \in Cycles :
        /\ ~cyc[c].initial
        /\ cyc[c].pc = "quote"
        /\ cyc[c].swapAmount > 0
        /\ cyc[c].swapAmount = cyc[c].withdrawn
        /\ custody > cyc[c].withdrawn

\* C27: when swapTokensToSol reports success, the amount it reports is the
\* outAmount of the quote, and that value, whatever the swap moved on the
\* ledger, is the pool handed to the distribution.
C27_PoolIsQuotedAmount ==
    \A c \in Cycles :
        cyc[c].swap = "ok" =>
            /\ cyc[c].quoteOut \in QuoteOuts
            /\ cyc[c].distKind = "swap"
            /\ cyc[c].pool = cyc[c].quoteOut

\* A swap whose transaction failed on the ledger was reported successful, and
\* a recipient was paid out of the quoted amount.
C27_Witness ==
    \E c \in Cycles :
        /\ cyc[c].swap = "ok"
        /\ cyc[c].chain = "err"
        /\ cyc[c].pool = 80
        /\ Len(cyc[c].paid) > 0

\* C28: the amount a cycle submits to the swap is no greater than the amount its
\* own harvest withdrew into the custody account.
C28_SwapAmountWithinWithdrawn ==
    \A c \in Cycles :
        Has(cyc[c].log, "quote") => cyc[c].swapAmount <= cyc[c].withdrawn

\* C29: harvestSwapAndDistribute returns success = true only if the withdrawal
\* was confirmed and, for a total above 0, the swap succeeded and a recipient
\* was paid, or if no account was harvestable, test distribution was enabled
\* and a test recipient was paid.
C29_SuccessOnlyIfWorkDone ==
    \A c \in Cycles :
        (mode = "swap" /\ cyc[c].pc = "done" /\ cyc[c].result.status = "returned"
         /\ cyc[c].result.success /\ Has(cyc[c].log, "enumerate")) =>
            \/ /\ cyc[c].harvest = "ok"
               /\ Has(cyc[c].log, "withdrawConfirm")
               /\ cyc[c].totalFees > 0 =>
                     /\ cyc[c].swap = "ok"
                     /\ cyc[c].chain = "landed"
                     /\ Len(cyc[c].paid) > 0
            \/ /\ cyc[c].cands = {}
               /\ enableTest
               /\ cyc[c].distKind = "test"
               /\ Len(cyc[c].paid) > 0

\* C26: every started cycle eventually returns to Idle, with a result or an
\* error, whether all, some or no recipients were paid, provided each external
\* call eventually returns or fails.
C26_EveryCycleReturnsToIdle ==
    \A c \in Cycles : InFlight(c) ~> cyc[c].pc = "done"

\* A cycle has ended after paying one of its two recipients and failing the other.
C26_Witness ==
    \E c \in Cycles :
        /\ cyc[c].pc = "done"
        /\ cyc[c].distKind = "swap"
        /\ Len(cyc[c].paid) = 1
        /\ Cardinality(At(cyc[c].log, "transfer")) = 2

\* ---------------------------------------------------------------- claims on start-up and shutdown
\* Entries of a cycle's log that stand for a transaction or a swap request.
TransactionSteps == SwapStepNames \cup {"withdrawSubmit", "withdrawConfirm", "transfer"}

NoTransaction(c) == \A k \in DOMAIN cyc[c].log : cyc[c].log[k][1] \notin TransactionSteps

\* The branch taken distributes to RECIPIENT_WALLET_1 / RECIPIENT_WALLET_2.
RecipientsRequired == ~env.testOnly /\ ~env.checkOnly /\ mode = "swap"

IncompleteConfig == env.mint # "valid" \/ (RecipientsRequired /\ ~env.recipients)

\* C22: with the mint address missing or invalid, or a required recipient
\* address unset, the process exits at start-up before any cycle runs: no scan,
\* withdrawal, swap or transfer is performed.
C22_IncompleteConfigExitsAtStartup ==
    IncompleteConfig =>
        /\ boot.pc \in {"validate", "exited"}
        /\ boot.pc = "exited" => proc = "exited" /\ boot.exitCode = 1 /\ boot.signal = "none"
        /\ \A c \in Cycles : cyc[c] = NewCycle
        /\ custody = 0
        /\ ~timerSet

\* C23: a decode failure of one account among many does not abort the scan:
\* every other account is analysed and the report omits only that account.
C23_DecodeFailureIsLocal ==
    \A c \in Cycles :
        /\ cyc[c].result.message # "decode error"
        /\ (cyc[c].hasReport /\ cyc[c].enumerated) =>
              {r.accountAddress : r \in cyc[c].report.accounts} = Accts \ env.undecodable

\* C24: on SIGINT or SIGTERM the process exits with code 0, a cycle in flight
\* is left where it stands, and no cycle is started afterwards.
C24_SignalExitsWithZero ==
    /\ [](boot.signal # "none" => proc = "exited" /\ boot.exitCode = 0)
    /\ [][boot.signal # "none" => UNCHANGED <<cyc, ticks, timerSet, ledgerVars>>]_vars

\* A signal arrived while a cycle started by the timer was in flight and the
\* timer had ticks to come.
C24_Witness ==
    /\ boot.signal = "SIGTERM"
    /\ proc = "exited"
    /\ boot.exitCode = 0
    /\ timerSet
    /\ ticks < MaxTicks
    /\ \E c \in Cycles : cyc[c].pc = "harvest" /\ ~cyc[c].initial

\* C30: with CHECK_ONLY true and TEST_DISTRIBUTION_ONLY not true the program
\* performs a single scan and exits: no withdrawal, swap or transfer is
\* submitted and no timer is started, whatever the scan finds.
C30_CheckOnlyScansOnceAndExits ==
    (env.checkOnly /\ ~env.testOnly) =>
        /\ boot.pc \in {"validate", "dispatch", "checkOnly", "exited"}
        /\ \A c \in Cycles : NoTransaction(c) /\ cyc[c].pc \in {"idle", "done"}
        /\ cyc[2] = NewCycle
        /\ Cardinality(At(cyc[1].log, "scan")) <= 1
        /\ Has(cyc[1].log, "scan") => proc = "exited" /\ boot.exitCode = 0
        /\ custody = 0
        /\ withheld = [a \in Accts |-> 1]
        /\ ~timerSet
        /\ ticks = 0

\* A check-only run has reported harvestable fees and has exited.
C30_Witness ==
    /\ env.checkOnly
    /\ ~env.testOnly
    /\ proc = "exited"
    /\ boot.exitCode = 0
    /\ cyc[1].hasReport
    /\ cyc[1].report.harvestableFees = 2
    /\ NoTransaction(1)
    /\ ~timerSet

\* ---------------------------------------------------------------- claims on a distributor call
\* The recipients named by a sequence of transfers or of result entries.
ToOf(seq) == {seq[k].to : k \in DOMAIN seq}

\* The recipients for whom the try block of the loop was entered.
Tried == {i \in DOMAIN call.recips : \E k \in DOMAIN call.events : call.events[k] = <<"try", i>>}

\* The call went through its loop (it did not end in its preamble).
LoopDone == call.pc = "done" /\ call.idx >= 1

SumPct == SumOver(DOMAIN call.recips, [i \in DOMAIN call.recips |-> call.recips[i].pct])

SumUnits(seq) == SumOver(DOMAIN seq, [k \in DOMAIN seq |-> seq[k].units])

\* C12: a failed transfer or an invalid address of one recipient does not stop
\* the loop: the call still returns its list, every recipient whose computed
\* share is at least one unit has been attempted, and the list names exactly
\* the recipients whose transfer was confirmed, leaving out only the failed
\* and the skipped ones.
C12_FailureDoesNotStopLoop ==
    LoopDone =>
        /\ call.result.hasList
        /\ \A i \in DOMAIN call.recips :
              Units(call.kind, call.total, call.recips[i].pct) >= 1 => i \in Tried
        /\ ToOf(call.paid) = ToOf(call.landed)
        /\ ToOf(call.paid) = DOMAIN call.recips \ (call.failed \cup call.skipped)
        /\ Len(call.paid) = Cardinality(ToOf(call.paid))

\* A token distribution whose first recipient has an invalid address and whose
\* second recipient was paid.
C12_Witness ==
    /\ LoopDone
    /\ call.kind = "tokens"
    /\ Len(call.recips) = 2
    /\ ~call.recips[1].valid
    /\ call.failed = {1}
    /\ ToOf(call.paid) = {2}

\* C13: a distribution call reports success exactly when at least one transfer
\* was confirmed; when every recipient was skipped or failed it reports
\* success = false and its list is empty.
C13_SuccessIffSomeonePaid ==
    call.pc = "done" =>
        /\ call.result.success <=> Len(call.landed) > 0
        /\ Len(call.landed) = 0 => call.paid = <<>>

\* A SOL distribution with one recipient skipped and the other failed.
C13_Witness ==
    /\ LoopDone
    /\ call.kind = "sol"
    /\ call.skipped # {}
    /\ call.failed # {}
    /\ call.skipped \cup call.failed = DOMAIN call.recips
    /\ ~call.result.success
    /\ call.result.hasList

\* C14: for every recipient the number of units is the floor of
\* total * percentage / 100 in smallest units; the recipient is attempted
\* exactly when that number is at least 1, its transfer carries exactly that
\* number, and a skipped recipient has neither a transfer nor an error.
C14_UnitsAreFloorOfShare ==
    \A i \in DOMAIN call.recips :
        (i < call.idx \/ LoopDone) =>
            LET share == (call.total * call.recips[i].pct) \div PercentScale
            IN /\ i \in Tried <=> share >= 1
               /\ \A k \in DOMAIN call.sent :
                     call.sent[k].to = i => call.sent[k].units = share
               /\ i \in call.skipped =>
                     /\ i \notin Tried
                     /\ i \notin call.failed
                     /\ i \notin ToOf(call.sent)

C16_PercentSumNeverBlocks ==
    (call.pc = "done" /\ SumPct # 100 * 10 /\ ~(call.kind = "tokens" /\ mintOwner = "None")) =>
        /\ call.result.hasList
        /\ DOMAIN call.recips = call.skipped \cup call.failed \cup ToOf(call.paid)
        /\ \A k \in DOMAIN call.sent :
              call.sent[k].units =
                  Units(call.kind, call.total, call.recips[call.sent[k].to].pct)
        /\ Len(call.landed) > 0 => call.result.success

\* A call whose single recipient has 90 % was paid and reports success.
C16_Witness ==
    /\ call.pc = "done"
    /\ SumPct = 900
    /\ Len(call.paid) = 1
    /\ call.result.success

\* C17: every entry of the returned list records the amount sent: converted to
\* smallest units it is the number of units the confirmed transfer carried.
C17_RecordedAmountIsAmountSent ==
    \A k \in DOMAIN call.paid :
        /\ call.paid[k].amount = call.paid[k].units * PercentScale
        /\ \E j \in DOMAIN call.landed :
              call.landed[j].to = call.paid[k].to /\ call.landed[j].units = call.paid[k].units

\* C18: the transfers of a call are sequential: at most one is in flight, a
\* transfer is submitted only after every earlier one has been settled, and the
\* list follows the order of the recipients.
C18_TransfersSequential ==
    /\ Cardinality(call.inFlight) <= 1
    /\ call.pc \in {"loop", "done"} => call.inFlight = {}
    /\ \A k \in DOMAIN call.events :
          call.events[k][1] = "submit" =>
              \A j \in 1..(k - 1) :
                  call.events[j][1] = "submit" =>
                      \E m \in (j + 1)..(k - 1) :
                          call.events[m] = <<"settle", call.events[j][2]>>
    /\ \A j, k \in DOMAIN call.paid : j < k => call.paid[j].to < call.paid[k].to

\* The second transfer is in flight after the first one was confirmed.
C18_Witness ==
    /\ call.pc = "await"
    /\ call.inFlight = {2}
    /\ ToOf(call.paid) = {1}

====
